---- MODULE Spec2Model ----
(***************************************************************************)
(* Model of the SQLite -> Postgres migrator (populate_db.py) and of the    *)
(* query dashboard (streamlit_app.py).                                     *)
(*                                                                         *)
(* Spec is the migrator, SpecDate a direct call of parse_sqlite_date and   *)
(* SpecApp one browser session of the dashboard, a step of which is one    *)
(* script run of main().                                                   *)
(*                                                                         *)
(* The SQLite file and the two copy_table parameters are fixed for a       *)
(* behaviour; the Postgres database keeps its committed content from one   *)
(* invocation of the script to the next.  The interpreter version, which   *)
(* decides what date.fromisoformat accepts, is free at every use.          *)
(***************************************************************************)
EXTENDS Integers, Sequences, FiniteSets, TLC

(* ------------------------------ bounds -------------------------------- *)
\* rows per source table chain (region/country/customer and category/product)
MaxRows == 2
\* largest batch_size passed to copy_table
MaxBatch == 2
\* largest page_size of execute_values
MaxPage == 2
\* most whitespace characters before or after a date text
MaxPad == 1

(* ----------------------- small helpers -------------------------------- *)
Min(a, b) == IF a < b THEN a ELSE b

\* ceil(a / b) for b >= 1
CeilDiv(a, b) == (a + b - 1) \div b

\* the elements of a sequence
Range(s) == {s[i] : i \in 1..Len(s)}

\* s[from..to] with Python's clipping of the upper end
Slice(s, from, to) == SubSeq(s, from, Min(to, Len(s)))

(* ----------------------- verify_sqlite_tables ------------------------- *)
\* the set literal of verify_sqlite_tables
expected == {"Region", "Country", "Customer", "ProductCategory", "Product", "OrderDetail"}

\* the expected names in the order sorted() gives them (code-point order)
SortedExpected ==
  <<"Country", "Customer", "OrderDetail", "Product", "ProductCategory", "Region">>

\* sorted(list(expected - tables))
MissingTables_nocase(tables) ==
  SelectSeq(SortedExpected,
            LAMBDA t : t \notin tables /\ (IF t = "Region" THEN "region" ELSE t) \notin tables)
MissingTables(tables) == SelectSeq(SortedExpected, LAMBDA t : t \notin tables)

\* verify_sqlite_tables: the list it raises ValueError with, empty when it returns
verify_sqlite_tables_pass(tables) == [raised |-> FALSE, missing |-> <<>>]
verify_sqlite_tables(tables) ==
  LET missing == MissingTables(tables)
  IN  [raised |-> missing # <<>>, missing |-> missing]

(* ----------------------- POSTGRES_CREATE_SQL --------------------------- *)
Drop(t) == [op |-> "drop", table |-> t, refs |-> {}]
Create(t, refs) == [op |-> "create", table |-> t, refs |-> refs]

\* tables of the other ("Code 2") schema that the script drops first
LegacyTables ==
  <<"admission_lab_results", "admission_primary_diagnoses", "admissions", "patients",
    "lab_tests", "diagnosis_codes", "lab_units", "languages", "marital_statuses",
    "races", "genders", "stage_labs", "stage_diagnoses", "stage_admissions",
    "stage_patients">>

\* the six target tables, in the order the script copies them
PgTables == <<"region", "country", "customer", "product_category", "product", "order_detail">>

\* REFERENCES clauses: table -> set of <<column position, referenced table>>
ForeignKeys(t) ==
  CASE t = "country"      -> {<<3, "region">>}
    [] t = "customer"     -> {<<6, "country">>}
    [] t = "product"      -> {<<4, "product_category">>}
    [] t = "order_detail" -> {<<2, "customer">>, <<3, "product">>}
    [] OTHER              -> {}

References(t) == {fk[2] : fk \in ForeignKeys(t)}

\* the statements of the DDL block, in order
POSTGRES_CREATE_SQL_nodrop ==
  [i \in 1..Len(LegacyTables) |-> Drop(LegacyTables[i])]
  \o <<Drop("order_detail"), Drop("product"), Drop("product_category"),
       Drop("customer"), Drop("country")>>
  \o [i \in 1..Len(PgTables) |-> Create(PgTables[i], References(PgTables[i]))]
POSTGRES_CREATE_SQL ==
  [i \in 1..Len(LegacyTables) |-> Drop(LegacyTables[i])]
  \o <<Drop("order_detail"), Drop("product"), Drop("product_category"),
       Drop("customer"), Drop("country"), Drop("region")>>
  \o [i \in 1..Len(PgTables) |-> Create(PgTables[i], References(PgTables[i]))]

(* ----------------------- parse_sqlite_date ---------------------------- *)
\* A text is a sequence of one-character strings; a SQLite value is NULL or a text.
Null == [null |-> TRUE, text |-> <<>>]
Text(chars) == [null |-> FALSE, text |-> chars]

Digits == {"0", "1", "2", "3", "4", "5", "6", "7", "8", "9"}
Whitespace == {" ", "\t", "\n"}

DigitVal(c) ==
  CASE c = "0" -> 0 [] c = "1" -> 1 [] c = "2" -> 2 [] c = "3" -> 3 [] c = "4" -> 4
    [] c = "5" -> 5 [] c = "6" -> 6 [] c = "7" -> 7 [] c = "8" -> 8 [] c = "9" -> 9

\* int() of a text of decimal digits
RECURSIVE ToInt(_)
ToInt(s) == IF s = <<>> THEN 0 ELSE 10 * ToInt(SubSeq(s, 1, Len(s) - 1)) + DigitVal(s[Len(s)])

\* str.isdigit()
isdigit(s) == s # <<>> /\ \A i \in 1..Len(s) : s[i] \in Digits

\* str.strip()
RECURSIVE lstrip(_)
lstrip(s) == IF s # <<>> /\ Head(s) \in Whitespace THEN lstrip(Tail(s)) ELSE s
RECURSIVE rstrip(_)
rstrip(s) ==
  IF s # <<>> /\ s[Len(s)] \in Whitespace THEN rstrip(SubSeq(s, 1, Len(s) - 1)) ELSE s
strip_omitted(s) == s
strip(s) == rstrip(lstrip(s))

\* results of parse_sqlite_date: None, a datetime.date, or a raised ValueError
NoneDate == [tag |-> "None", y |-> 0, m |-> 0, d |-> 0]
Date(y, m, d) == [tag |-> "date", y |-> y, m |-> m, d |-> d]
ValueError == [tag |-> "ValueError", y |-> 0, m |-> 0, d |-> 0]

IsLeap(y) == y % 4 = 0 /\ (y % 100 # 0 \/ y % 400 = 0)
DaysInMonth(y, m) ==
  IF m = 2 THEN (IF IsLeap(y) THEN 29 ELSE 28)
  ELSE IF m \in {4, 6, 9, 11} THEN 30 ELSE 31

\* the range check of the datetime.date constructor
ValidDate(y, m, d) == y \in 1..9999 /\ m \in 1..12 /\ d >= 1 /\ d <= DaysInMonth(y, m)
NewDate(y, m, d) == IF ValidDate(y, m, d) THEN Date(y, m, d) ELSE ValueError

\* proleptic Gregorian ordinal, 0001-01-01 is day 1 (a Monday)
DaysBeforeYear(y) == (y - 1) * 365 + (y - 1) \div 4 - (y - 1) \div 100 + (y - 1) \div 400
RECURSIVE DaysBeforeMonth(_, _)
DaysBeforeMonth(y, m) ==
  IF m = 1 THEN 0 ELSE DaysBeforeMonth(y, m - 1) + DaysInMonth(y, m - 1)
YmdToOrd(y, m, d) == DaysBeforeYear(y) + DaysBeforeMonth(y, m) + d
\* Monday = 0 ... Sunday = 6
Weekday(y, m, d) == (YmdToOrd(y, m, d) + 6) % 7

\* the date of an ordinal lying in year y - 1, y or y + 1
OrdToYmd(n, y) ==
  LET yy == IF n <= DaysBeforeYear(y) THEN y - 1
            ELSE IF n > DaysBeforeYear(y + 1) THEN y + 1 ELSE y
      mm == CHOOSE m \in 1..12 :
              /\ n - DaysBeforeYear(yy) > DaysBeforeMonth(yy, m)
              /\ n - DaysBeforeYear(yy) <= DaysBeforeMonth(yy, m) + DaysInMonth(yy, m)
  IN  NewDate(yy, mm, n - DaysBeforeYear(yy) - DaysBeforeMonth(yy, mm))

\* datetime.strptime(s, "%Y%m%d").date() for a text of exactly 8 digits:
\* %Y takes 4 digits, %m must be 01..12 (a one-digit month leaves unconverted
\* data), %d 01..31, then the date constructor checks the calendar
strptime_Ymd(s) ==
  NewDate(ToInt(SubSeq(s, 1, 4)), ToInt(SubSeq(s, 5, 6)), ToInt(SubSeq(s, 7, 8)))

\* ISO week date -> calendar date (date.fromisoformat, Python 3.11 and later)
IsoWeek1Monday(y) ==
  LET first_day == YmdToOrd(y, 1, 1)
      first_weekday == (first_day + 6) % 7
      week1_monday == first_day - first_weekday
  IN  IF first_weekday > 3 THEN week1_monday + 7 ELSE week1_monday
IsoToYmd(y, week, day) ==
  LET first_weekday == Weekday(y, 1, 1)
      has53 == first_weekday = 3 \/ (first_weekday = 2 /\ IsLeap(y))
  IN  IF y \notin 1..9999 THEN ValueError
      ELSE IF week <= 0 \/ week > 53 \/ (week = 53 /\ ~has53) THEN ValueError
      ELSE IF day <= 0 \/ day >= 8 THEN ValueError
      ELSE OrdToYmd(IsoWeek1Monday(y) + (week - 1) * 7 + day - 1, y)

\* reads n digits at position p (1-based); FALSE when they are not all there
HasDigits(s, p, n) == p + n - 1 <= Len(s) /\ isdigit(SubSeq(s, p, p + n - 1))
CharAt(s, p) == IF p <= Len(s) THEN s[p] ELSE ""

\* date.fromisoformat before Python 3.11: exactly YYYY-MM-DD
fromisoformat_strict(s) ==
  IF /\ Len(s) = 10
     /\ HasDigits(s, 1, 4) /\ s[5] = "-" /\ HasDigits(s, 6, 2) /\ s[8] = "-"
     /\ HasDigits(s, 9, 2)
  THEN NewDate(ToInt(SubSeq(s, 1, 4)), ToInt(SubSeq(s, 6, 7)), ToInt(SubSeq(s, 9, 10)))
  ELSE ValueError

\* date.fromisoformat from Python 3.11 on: length 7, 8 or 10; YYYY[-]MM[-]DD or
\* YYYY[-]Www[[-]D]; characters after the parsed fields are not looked at
fromisoformat_311(s) ==
  IF Len(s) \notin {7, 8, 10} \/ ~HasDigits(s, 1, 4) THEN ValueError
  ELSE
    LET year == ToInt(SubSeq(s, 1, 4))
        sep  == IF CharAt(s, 5) = "-" THEN 1 ELSE 0
        p    == 5 + sep
    IN  IF CharAt(s, p) = "W"
        THEN IF ~HasDigits(s, p + 1, 2) THEN ValueError
             ELSE LET week == ToInt(SubSeq(s, p + 1, p + 2))
                      q == p + 3
                  IN  IF q > Len(s) THEN IsoToYmd(year, week, 1)
                      ELSE IF sep = 1 /\ CharAt(s, q) # "-" THEN ValueError
                      ELSE IF ~HasDigits(s, q + sep, 1) THEN ValueError
                      ELSE IsoToYmd(year, week, DigitVal(s[q + sep]))
        ELSE IF ~HasDigits(s, p, 2) THEN ValueError
             ELSE IF sep = 1 /\ CharAt(s, p + 2) # "-" THEN ValueError
             ELSE IF ~HasDigits(s, p + 2 + sep, 2) THEN ValueError
             ELSE NewDate(year, ToInt(SubSeq(s, p, p + 1)),
                          ToInt(SubSeq(s, p + 2 + sep, p + 3 + sep)))

\* date.fromisoformat of the interpreter the script runs on
fromisoformat(s, modern) == IF modern THEN fromisoformat_311(s) ELSE fromisoformat_strict(s)

parse_sqlite_date(v, modern) ==
  IF v.null THEN NoneDate
  ELSE LET s == strip(v.text)
       IN  IF s = <<>> THEN NoneDate
           ELSE IF Len(s) = 8 /\ isdigit(s) THEN strptime_Ymd(s)
           ELSE fromisoformat(Slice(s, 1, 10), modern)

(* ----------------------- the Postgres database ------------------------ *)
\* A database is a function from the names of its tables to their rows, a
\* sequence in insertion order; a row is the tuple of its column values, the
\* primary key first.
NoTables == [t \in {} |-> <<>>]

DropTable(db, t) == [u \in DOMAIN db \ {t} |-> db[u]]
CreateTable(db, t) == [u \in DOMAIN db \cup {t} |-> IF u = t THEN <<>> ELSE db[u]]

\* one statement of the DDL block: DROP TABLE IF EXISTS ... CASCADE never fails on
\* the table's absence; CREATE TABLE fails when the table exists or a referenced
\* table does not
ExecDDL(db, stmt) ==
  IF stmt.op = "drop" THEN [db |-> DropTable(db, stmt.table), err |-> ""]
  ELSE IF stmt.table \in DOMAIN db THEN [db |-> db, err |-> "DuplicateTable"]
  ELSE IF ~(stmt.refs \subseteq DOMAIN db) THEN [db |-> db, err |-> "UndefinedTable"]
  ELSE [db |-> CreateTable(db, stmt.table), err |-> ""]

\* cur.execute(block): the statements from the i-th on, run in the open
\* transaction; lost is the statement at which the server or the connection
\* fails (0: none). Returns the transaction's view and the error raised.
RECURSIVE ExecuteBlock(_, _, _, _)
ExecuteBlock(db, block, i, lost) ==
  IF i > Len(block) THEN [db |-> db, err |-> "", at |-> 0]
  ELSE IF i = lost THEN [db |-> db, err |-> "OperationalError", at |-> i]
  ELSE LET r == ExecDDL(db, block[i])
       IN  IF r.err # "" THEN [db |-> r.db, err |-> r.err, at |-> i]
           ELSE ExecuteBlock(r.db, block, i + 1, lost)

\* the CREATE TABLE statements of the block that ran before it ended
CreatedBy(block, r) ==
  LET ran == IF r.err = "" THEN Len(block) ELSE r.at - 1
  IN  Cardinality({i \in 1..ran : block[i].op = "create"})

\* What the DDL transaction leaves committed: psycopg2 opens a transaction at
\* cur.execute, and only pg_conn.commit() (reached when execute did not raise)
\* makes its work durable; otherwise the server rolls it back.
CommittedAfterDDL_autocommit(before, r) == r.db
CommittedAfterDDL(before, r) == IF r.err = "" THEN r.db ELSE before

Ids(db, t) == {db[t][i][1] : i \in 1..Len(db[t])}

\* the constraint a row breaks when it is added to table t of db, "" if none
RowError(db, t, row) ==
  IF t \notin DOMAIN db THEN "UndefinedTable"
  ELSE IF row[1] \in Ids(db, t) THEN "UniqueViolation"
  ELSE IF t = "order_detail" /\ row[4] = NoneDate THEN "NotNullViolation"
  ELSE IF \E fk \in ForeignKeys(t) : fk[2] \notin DOMAIN db \/ row[fk[1]] \notin Ids(db, fk[2])
       THEN "ForeignKeyViolation"
  ELSE ""

\* one INSERT ... VALUES statement with the rows of a page: all rows or none
RECURSIVE InsertStatement(_, _, _)
InsertStatement(db, t, page) ==
  IF page = <<>> THEN [db |-> db, err |-> ""]
  ELSE LET e == RowError(db, t, Head(page))
       IN  IF e # "" THEN [db |-> db, err |-> e]
           ELSE InsertStatement([db EXCEPT ![t] = Append(@, Head(page))], t, Tail(page))

\* cursor.executemany instead: one INSERT statement per row
RECURSIVE execute_values_rowwise(_, _, _, _, _, _)
execute_values_rowwise(db, t, rows, page_size, lost, sent) ==
  IF rows = <<>> THEN [db |-> db, err |-> "", statements |-> sent]
  ELSE IF sent + 1 = lost THEN [db |-> db, err |-> "OperationalError", statements |-> sent + 1]
  ELSE LET r == InsertStatement(db, t, <<Head(rows)>>)
       IN  IF r.err # "" THEN [db |-> db, err |-> r.err, statements |-> sent + 1]
           ELSE execute_values_rowwise(r.db, t, Tail(rows), page_size, lost, sent + 1)

\* extras.execute_values(cur, sql, rows, page_size): one INSERT statement per
\* page of page_size rows, all in the open transaction; lost is the statement at
\* which the server or the connection fails (0: none). statements counts the
\* INSERT statements sent.
RECURSIVE execute_values(_, _, _, _, _, _)
execute_values(db, t, rows, page_size, lost, sent) ==
  IF rows = <<>> THEN [db |-> db, err |-> "", statements |-> sent]
  ELSE IF sent + 1 = lost THEN [db |-> db, err |-> "OperationalError", statements |-> sent + 1]
  ELSE LET page == SubSeq(rows, 1, Min(page_size, Len(rows)))
           rest == SubSeq(rows, Len(page) + 1, Len(rows))
           r == InsertStatement(db, t, page)
       IN  IF r.err # "" THEN [db |-> db, err |-> r.err, statements |-> sent + 1]
           ELSE execute_values(r.db, t, rest, page_size, lost, sent + 1)

\* What a chunk's transaction leaves committed: pg_conn.commit() runs only when
\* execute_values returned.
CommittedAfterInsert_autocommit(before, r) == r.db
CommittedAfterInsert(before, r) == IF r.err = "" THEN r.db ELSE before

(* ----------------------- the SQLite source ---------------------------- *)
\* date texts of the source rows
Chars8 == <<"2", "0", "2", "3", "0", "1", "0", "1">>
CharsIso == <<"2", "0", "2", "3", "-", "0", "7", "-", "0", "4", "T", "1", "0", ":", "0", "0">>
CharsBad == <<"n", "/", "a">>

\* a price column value: a number (in thousandths) or a text that is no number
Price(mills) == [num |-> TRUE, mills |-> mills]
NotANumber == [num |-> FALSE, mills |-> 0]

\* what can be wrong with a source that has all its tables
Defects == {"none", "danglingCountry", "danglingOrder", "badDate", "emptyDate", "badPrice"}

\* number of OrderDetail rows of a source with n customers and m products
OrderCount(n, m) == IF n = 0 \/ m = 0 THEN 0 ELSE n + m - 1

\* The rows of the six source tables: n regions, countries and customers, m
\* categories and products, and orders over them; ids are 1..count and every
\* reference is to an existing id, except in the last row of the table the
\* defect names.
SourceRows(n, m, defect) ==
  [t \in expected |->
    CASE t = "Region" -> [i \in 1..n |-> <<i, "r">>]
      [] t = "Country" ->
           [i \in 1..n |->
             <<i, "c", IF defect = "danglingCountry" /\ i = n THEN n + 1 ELSE n + 1 - i>>]
      [] t = "Customer" -> [i \in 1..n |-> <<i, "f", "l", "a", "c", n + 1 - i>>]
      [] t = "ProductCategory" -> [i \in 1..m |-> <<i, "pc", "d">>]
      [] t = "Product" ->
           [i \in 1..m |->
             <<i, "p", IF defect = "badPrice" /\ i = m THEN NotANumber ELSE Price(1000 * i + 996),
               m + 1 - i>>]
      [] t = "OrderDetail" ->
           [i \in 1..OrderCount(n, m) |->
             <<i, (i % n) + 1,
               IF defect = "danglingOrder" /\ i = OrderCount(n, m) THEN m + 1
               ELSE ((i - 1) % m) + 1,
               IF defect = "badDate" /\ i = OrderCount(n, m) THEN Text(CharsBad)
               ELSE IF defect = "emptyDate" /\ i = OrderCount(n, m) THEN Text(<<" ">>)
               ELSE IF i % 2 = 1 THEN Text(Chars8) ELSE Text(CharsIso),
               i + 1>>]]

\* names a SQLite file may hold besides the expected ones
OtherNames == {"region", "sqlite_sequence"}

\* a SQLite file with the tables in names; a file lacking an expected table
\* is never read, so its tables are left empty
SqliteFile(names, n, m, defect) ==
  [t \in names |-> IF t \in expected THEN SourceRows(n, m, defect)[t] ELSE <<>>]

SqliteFiles ==
  {SqliteFile(names, 0, 0, "none") :
     names \in {x \in SUBSET (expected \cup OtherNames) : ~(expected \subseteq x)}}
  \cup
  {SqliteFile(expected \cup extra, 0, 0, "none") : extra \in SUBSET OtherNames}
  \cup
  {SqliteFile(expected, nm[1], nm[2], defect) :
     nm \in (0..MaxRows) \X (0..MaxRows), defect \in Defects}

\* every reference of the source is to a row of the source
Consistent(file) ==
  /\ expected \subseteq DOMAIN file
  /\ \A i \in 1..Len(file["Country"]) :
       \E j \in 1..Len(file["Region"]) : file["Region"][j][1] = file["Country"][i][3]
  /\ \A i \in 1..Len(file["Customer"]) :
       \E j \in 1..Len(file["Country"]) : file["Country"][j][1] = file["Customer"][i][6]
  /\ \A i \in 1..Len(file["Product"]) :
       \E j \in 1..Len(file["ProductCategory"]) :
         file["ProductCategory"][j][1] = file["Product"][i][4]
  /\ \A i \in 1..Len(file["OrderDetail"]) :
       /\ \E j \in 1..Len(file["Customer"]) :
            file["Customer"][j][1] = file["OrderDetail"][i][2]
       /\ \E j \in 1..Len(file["Product"]) :
            file["Product"][j][1] = file["OrderDetail"][i][3]

(* ----------------------- the calls of copy_table ---------------------- *)
\* the six calls of the script, in order: source table, target table
CopyCalls_swapped ==
  <<[sqlite_table |-> "Country", pg_table |-> "country"],
    [sqlite_table |-> "Region", pg_table |-> "region"],
    [sqlite_table |-> "Customer", pg_table |-> "customer"],
    [sqlite_table |-> "ProductCategory", pg_table |-> "product_category"],
    [sqlite_table |-> "Product", pg_table |-> "product"],
    [sqlite_table |-> "OrderDetail", pg_table |-> "order_detail"]>>
CopyCalls ==
  <<[sqlite_table |-> "Region", pg_table |-> "region"],
    [sqlite_table |-> "Country", pg_table |-> "country"],
    [sqlite_table |-> "Customer", pg_table |-> "customer"],
    [sqlite_table |-> "ProductCategory", pg_table |-> "product_category"],
    [sqlite_table |-> "Product", pg_table |-> "product"],
    [sqlite_table |-> "OrderDetail", pg_table |-> "order_detail"]>>

\* round(float(x), 2) in hundredths, for x in thousandths not ending in 5
Round2(mills) == (mills + 5) \div 10

\* the transform argument of the call for pg_table, applied to one row:
\* the row to insert, or the error it raises
Transform(pg_table, row, modern) ==
  CASE pg_table = "product" ->
         IF row[3].num
         THEN [err |-> "", row |-> <<row[1], row[2], Round2(row[3].mills), row[4]>>]
         ELSE [err |-> "ValueError", row |-> row]
    [] pg_table = "order_detail" ->
         LET d == parse_sqlite_date(row[4], modern)
         IN  IF d = ValueError THEN [err |-> "ValueError", row |-> row]
             ELSE [err |-> "", row |-> <<row[1], row[2], row[3], d, row[5]>>]
    [] OTHER -> [err |-> "", row |-> row]

\* rows = [transform(r) for r in rows]
TransformAll(pg_table, rows, modern) ==
  LET out == [i \in 1..Len(rows) |-> Transform(pg_table, rows[i], modern)]
  IN  IF \E i \in 1..Len(rows) : out[i].err # ""
      THEN [err |-> "ValueError", rows |-> <<>>]
      ELSE [err |-> "", rows |-> [i \in 1..Len(rows) |-> out[i].row]]

\* total += len(rows)
AddTotal_one(n, rows) == n + 1
AddTotal(n, rows) == n + Len(rows)

\* s_cur.fetchmany(batch_size) with the cursor after `fetched` rows
fetchmany_short(rows, fetched, size) ==
  SubSeq(rows, fetched + 1, Min(fetched + size, Len(rows)) - 1)
fetchmany(rows, fetched, size) == SubSeq(rows, fetched + 1, Min(fetched + size, Len(rows)))

(* ----------------------- state ---------------------------------------- *)
VARIABLES
  sqlite_db,    \* normalized.db: SQLite table name -> rows
  batch_size,   \* copy_table's batch_size
  page_size,    \* execute_values' page_size
  pg,           \* the Postgres database: what is committed
  pg_at_start,  \* pg when the running process started
  pc,           \* where the script is
  err,          \* the exception that ended the script, "" if none
  missing,      \* the list in verify_sqlite_tables' message
  created,      \* CREATE TABLE statements the DDL block got through
  copy_call,    \* which of the six copy_table calls is next or running
  fetched,      \* rows s_cur has returned in the running call
  total,        \* copy_table's total
  chunks,       \* the chunks the running call inserted: rows and statements
  ret,          \* what the last finished copy_table call returned: <<>> is None
  out,          \* the lines printed
  sqlite_conn,  \* "none", "open" or "closed"
  pg_conn,      \* "none", "open" or "closed"
  date_in,      \* argument of a direct parse_sqlite_date call
  date_py311,   \* that call runs on Python 3.11 or later
  date_out,     \* its result
  session_state,  \* the dashboard's st.session_state
  edited_sql,     \* content of the review text area, Null when it is not on the page
  screen,         \* what the last script run drew: "none", "login" or "main"
  rerun_pending,  \* a script run is due without a new event (page opened, st.rerun())
  last_run        \* the last script run: the SQL it generated, its run_query calls

config == <<sqlite_db, batch_size, page_size>>
run == <<pc, err, missing, created, copy_call, fetched, total, chunks, ret, out, sqlite_conn, pg_conn>>
dates == <<date_in, date_py311, date_out>>
app == <<session_state, edited_sql, screen, rerun_pending, last_run>>
vars == <<config, pg, pg_at_start, run, dates, app>>

\* st.session_state of a new browser session: no key is set. A key that main
\* reads after its "not in st.session_state" defaults (lines 343-352) holds the
\* default here.
FreshSession ==
  [logged_in |-> "absent", login_password |-> "", generated_sql |-> Null,
   current_question |-> Null, query_history |-> <<>>, question_text |-> <<>>,
   selected_prompt |-> "Top Customers by Spend"]

\* no script run yet
NoRun == [generated |-> Null, executed |-> <<>>]

\* the dashboard is not open
NoDashboard ==
  /\ session_state = FreshSession /\ edited_sql = Null /\ screen = "none"
  /\ rerun_pending = FALSE /\ last_run = NoRun

\* what the target may hold before the first run: nothing, the tables of the
\* other schema, or those next to some tables of this one
LegacyDb == [t \in Range(LegacyTables) |-> <<<<1>>>>]
MixedDb ==
  [t \in Range(LegacyTables) \cup {"region", "product"} |->
    IF t = "region" THEN <<<<7, "r">>>> ELSE <<<<1>>>>]
InitialTargets == {NoTables, LegacyDb, MixedDb}

\* a fresh process: nothing connected, nothing printed
FreshRun ==
  /\ pc = "start" /\ err = "" /\ missing = <<>> /\ created = 0
  /\ copy_call = 0 /\ fetched = 0 /\ total = 0 /\ chunks = <<>> /\ ret = <<>>
  /\ out = <<>> /\ sqlite_conn = "none" /\ pg_conn = "none"

Init ==
  /\ sqlite_db \in SqliteFiles
  /\ batch_size \in 1..MaxBatch
  /\ page_size \in 1..MaxPage
  /\ pg \in InitialTargets
  /\ pg_at_start = pg
  /\ FreshRun
  /\ date_in = Null /\ date_py311 = FALSE /\ date_out = NoneDate
  /\ NoDashboard

\* the script ends with an unhandled exception
Raise_swallow(e) == pc' = pc /\ err' = e
Raise(e) == pc' = "failed" /\ err' = e

(* ----------------------- __main__ ------------------------------------- *)
\* get_db_url: the URL, or ValueError when one of the four variables is unset
get_db_url(vars_set) == IF vars_set THEN "" ELSE "ValueError"

\* lines 141-147: the SQLite file exists; build DATABASE_URL from the environment
Startup ==
  /\ pc = "start"
  /\ \E vars_set \in BOOLEAN :
       IF get_db_url(vars_set) = "" THEN pc' = "ready" /\ err' = ""
       ELSE Raise(get_db_url(vars_set))
  /\ UNCHANGED <<config, pg, pg_at_start, missing, created, copy_call, fetched, total, chunks,
                 ret, out, sqlite_conn, pg_conn, dates, app>>

\* lines 150-152: open the SQLite file and verify its tables
VerifySource ==
  /\ pc = "ready"
  /\ LET v == verify_sqlite_tables(DOMAIN sqlite_db)
     IN  /\ sqlite_conn' = "open"
         /\ missing' = v.missing
         /\ IF v.raised THEN Raise("ValueError") ELSE pc' = "verified" /\ err' = ""
  /\ UNCHANGED <<config, pg, pg_at_start, created, copy_call, fetched, total, chunks, ret, out,
                 pg_conn, dates, app>>

\* what can go wrong with the server during lines 155-165: the first connect
\* fails, the server fails at a statement of the block, or the reconnect fails
ResetFaults ==
  {[down |-> "", lost |-> 0], [down |-> "connect", lost |-> 0],
   [down |-> "reconnect", lost |-> 0]}
  \cup {[down |-> "", lost |-> k] : k \in 1..Len(POSTGRES_CREATE_SQL)}

\* lines 155-165: connect, run the DDL block, commit, close, reconnect
ResetSchema ==
  /\ pc = "verified"
  /\ \E f \in ResetFaults :
       IF f.down = "connect"
       THEN /\ Raise("OperationalError")
            /\ out' = Append(out, <<"Creating tables...">>)
            /\ UNCHANGED <<pg, created, copy_call, pg_conn>>
       ELSE LET r == ExecuteBlock(pg, POSTGRES_CREATE_SQL, 1, f.lost)
            IN  /\ pg' = CommittedAfterDDL(pg, r)
                /\ created' = CreatedBy(POSTGRES_CREATE_SQL, r)
                /\ IF r.err # ""
                   THEN /\ Raise(r.err)
                        /\ out' = Append(out, <<"Creating tables...">>)
                        /\ pg_conn' = "open"
                        /\ UNCHANGED copy_call
                   ELSE /\ out' = out \o <<<<"Creating tables...">>,
                                           <<"Tables created successfully">>>>
                        /\ IF f.down = "reconnect"
                           THEN Raise("OperationalError") /\ pg_conn' = "closed"
                                /\ UNCHANGED copy_call
                           ELSE pc' = "call" /\ err' = "" /\ pg_conn' = "open"
                                /\ copy_call' = 1
  /\ UNCHANGED <<config, pg_at_start, missing, fetched, total, chunks, ret, sqlite_conn, dates, app>>

\* lines 111-120 of the next call: print "Migrating ...", open the cursors, SELECT
CopyEnter ==
  /\ pc = "call" /\ copy_call \in 1..Len(CopyCalls)
  /\ out' = Append(out, <<"Migrating", CopyCalls[copy_call].sqlite_table>>)
  /\ fetched' = 0 /\ total' = 0 /\ chunks' = <<>>
  /\ IF CopyCalls[copy_call].sqlite_table \in DOMAIN sqlite_db
     THEN pc' = "loop" /\ err' = ""
     ELSE Raise("OperationalError")
  /\ UNCHANGED <<config, pg, pg_at_start, missing, created, copy_call, ret, sqlite_conn, pg_conn,
                 dates, app>>

\* lines 122-132: one pass of the loop with a non-empty fetch
CopyChunk ==
  /\ pc = "loop"
  /\ LET call == CopyCalls[copy_call]
         rows == fetchmany(sqlite_db[call.sqlite_table], fetched, batch_size)
     IN  /\ rows # <<>>
         /\ fetched' = fetched + Len(rows)
         /\ \E modern \in BOOLEAN :
            LET tr == TransformAll(call.pg_table, rows, modern) IN
            IF tr.err # ""
            THEN Raise(tr.err) /\ UNCHANGED <<pg, total, chunks, out>>
            ELSE \E lost \in 0..CeilDiv(Len(rows), page_size) :
                   LET r == execute_values(pg, call.pg_table, tr.rows, page_size, lost, 0)
                   IN  /\ pg' = CommittedAfterInsert(pg, r)
                              /\ IF r.err # ""
                          THEN Raise(r.err) /\ UNCHANGED <<total, chunks, out>>
                          ELSE /\ total' = AddTotal(total, tr.rows)
                               /\ chunks' = Append(chunks, [rows |-> Len(tr.rows),
                                                            statements |-> r.statements])
                               /\ out' = Append(out, <<"Inserted", total', call.pg_table>>)
                               /\ UNCHANGED <<pc, err>>
  /\ UNCHANGED <<config, pg_at_start, missing, created, copy_call, ret, sqlite_conn, pg_conn,
                 dates, app>>

\* lines 122-124, 134-135: the fetch is empty; close the cursors and return
CopyReturn ==
  /\ pc = "loop"
  /\ fetchmany(sqlite_db[CopyCalls[copy_call].sqlite_table], fetched, batch_size) = <<>>
  /\ ret' = <<>>
  /\ copy_call' = copy_call + 1
  /\ pc' = IF copy_call = Len(CopyCalls) THEN "copied" ELSE "call"
  /\ UNCHANGED <<config, pg, pg_at_start, err, missing, created, fetched, total, chunks, out, sqlite_conn,
                 pg_conn, dates, app>>

\* lines 217-220: close both connections, print the success line
Finish ==
  /\ pc = "copied"
  /\ pg_conn' = "closed" /\ sqlite_conn' = "closed"
  /\ out' = Append(out, <<"migration complete">>)
  /\ pc' = "done"
  /\ UNCHANGED <<config, pg, pg_at_start, err, missing, created, copy_call, fetched, total, chunks,
                 ret, dates, app>>

\* the process is gone (its open transaction rolled back); the script is run again
RunAgain ==
  /\ pc \in {"done", "failed"}
  /\ pc' = "start" /\ err' = "" /\ missing' = <<>> /\ created' = 0
  /\ copy_call' = 0 /\ fetched' = 0 /\ total' = 0 /\ chunks' = <<>> /\ ret' = <<>>
  /\ out' = <<>> /\ sqlite_conn' = "none" /\ pg_conn' = "none"
  /\ pg_at_start' = pg
  /\ UNCHANGED <<config, pg, dates, app>>

Next ==
  \/ Startup
  \/ VerifySource
  \/ ResetSchema
  \/ CopyEnter
  \/ CopyChunk
  \/ CopyReturn
  \/ Finish
  \/ RunAgain

Spec == Init /\ [][Next]_vars

(* ----------------------- parse_sqlite_date called directly ------------ *)
YearTexts ==
  {<<"0", "0", "0", "0">>, <<"2", "0", "2", "0">>, <<"2", "0", "2", "3">>,
   <<"2", "0", "2", "4">>}
MonthTexts == {<<"0", "0">>, <<"0", "2">>, <<"0", "7">>, <<"1", "2">>, <<"1", "3">>}
DayTexts ==
  {<<"0", "0">>, <<"0", "4">>, <<"2", "9">>, <<"3", "0">>, <<"3", "1">>, <<"3", "2">>}
WeekTexts == {<<"0", "0">>, <<"0", "1">>, <<"2", "7">>, <<"5", "3">>, <<"5", "4">>}
WeekdayTexts == {<<"0">>, <<"2">>, <<"7">>, <<"8">>}

\* date texts without surrounding whitespace or suffix
DateBodies ==
  {y \o m \o d : y \in YearTexts, m \in MonthTexts, d \in DayTexts}
  \cup {y \o <<"-">> \o m \o <<"-">> \o d : y \in YearTexts, m \in MonthTexts, d \in DayTexts}
  \cup {y \o <<"-", "W">> \o w \o <<"-">> \o d :
          y \in YearTexts, w \in WeekTexts, d \in WeekdayTexts}
  \cup {y \o <<"W">> \o w \o d : y \in YearTexts, w \in WeekTexts, d \in WeekdayTexts}
  \cup {y \o <<"-", "W">> \o w : y \in YearTexts, w \in WeekTexts}
  \cup {y \o <<"W">> \o w : y \in YearTexts, w \in WeekTexts}
  \cup {<<>>, CharsBad, <<"2", "0", "2", "3", "/", "0", "7", "/", "0", "4">>,
        <<"2", "0", "2", "3", "-", "7", "-", "4">>,
        <<"2", "0", "2", "3", "-", "0", "7", "-", "4">>,
        <<"2", "0", "2", "3", "0", "7", "0">>,
        <<"2", "0", "2", "3", "-", "0", "7", " ", "0", "4">>}

DateSuffixes == {<<>>, <<"x">>, <<"T", "1", "0", ":", "0", "0">>}
Pad(k) == [i \in 1..k |-> " "]

\* the arguments tried: NULL and every body, suffixed and padded
DateInputs ==
  {Null} \cup
  {Text(Pad(a) \o b \o x \o Pad(z)) :
     a \in 0..MaxPad, b \in DateBodies, x \in DateSuffixes, z \in 0..MaxPad}

InitDate ==
  /\ sqlite_db = NoTables
  /\ batch_size = 1 /\ page_size = 1
  /\ pg = NoTables /\ pg_at_start = NoTables
  /\ pc = "parse" /\ err = "" /\ missing = <<>> /\ created = 0
  /\ copy_call = 0 /\ fetched = 0 /\ total = 0 /\ chunks = <<>> /\ ret = <<>>
  /\ out = <<>> /\ sqlite_conn = "none" /\ pg_conn = "none"
  /\ date_in \in DateInputs /\ date_py311 \in BOOLEAN /\ date_out = NoneDate
  /\ NoDashboard

\* one call parse_sqlite_date(date_in)
ParseDate ==
  /\ pc = "parse"
  /\ date_out' = parse_sqlite_date(date_in, date_py311)
  /\ pc' = "parsed"
  /\ UNCHANGED <<config, pg, pg_at_start, err, missing, created, copy_call, fetched, total, chunks,
                 ret, out,
                 sqlite_conn, pg_conn, date_in, date_py311, app>>

NextDate == ParseDate

SpecDate == InitDate /\ [][NextDate]_vars

(* ======================= the dashboard: streamlit_app.py ============== *)
\* Texts (questions, SQL, model responses) are sequences of tokens: words or
\* phrases, whitespace characters and code fences. An optional text is Null
\* (None) or Text(tokens).

\* bounds of the dashboard model
MaxHistory == 2
\* the constant of query_history[-8:]
HistoryShown == 8

\* Python's truth value of an optional text: None and "" are false
Truthy(v) == ~v.null /\ v.text # <<>>

\* bcrypt.checkpw(password, hashed): hashed is the hash of password
Hash(password) == <<"bcrypt", password>>
HASHED_PASSWORD == Hash("secret")
checkpw(password, hashed) == Hash(password) = hashed

\* the passwords typed: none, the right one, a wrong one
Passwords == {"", "secret", "guess"}

\* one of the six entries of prompt_map, the default of the selectbox
prompt_map ==
  [p \in {"Top Customers by Spend"} |-> <<"Who are the top 10 customers by total spend?">>]

\* what the user types into the question box
Questions == {<<>>, <<" ", "orders per region", "\n">>}

\* extract_sql_from_response: the re.sub of line 275, then strip(). The token
\* <fence> stands for the three backquotes of a code fence.
\* An opening fence at the start of a line goes with the whitespace after it, a
\* closing fence at the end of a line with the whitespace before it.
OpenFences == {"<fence>sql", "<fence>SQL"}
IsOpenFence(t, i) == t[i] \in OpenFences /\ (i = 1 \/ t[i - 1] = "\n")
IsCloseFence(t, i) == t[i] = "<fence>" /\ (i = Len(t) \/ t[i + 1] = "\n")
Substituted(t, j) ==
  \/ \E i \in 1..j : IsOpenFence(t, i) /\ \A k \in (i + 1)..j : t[k] \in Whitespace
  \/ \E i \in j..Len(t) : IsCloseFence(t, i) /\ \A k \in j..(i - 1) : t[k] \in Whitespace
RECURSIVE re_sub(_, _)
re_sub(t, j) ==
  IF j > Len(t) THEN <<>>
  ELSE (IF Substituted(t, j) THEN <<>> ELSE <<t[j]>>) \o re_sub(t, j + 1)
extract_sql_from_response(response_text) == strip(re_sub(response_text, 1))

\* what the Gemini call does: it raises, or it answers with a text
ApiError == [error |-> TRUE, text |-> <<>>]
Answer(t) == [error |-> FALSE, text |-> t]
Responses ==
  {ApiError,
   Answer(<<"<fence>sql", "\n", "SELECT 1", "\n", "<fence>">>),
   Answer(<<" ", "SELECT 1", "\n">>),
   Answer(<<"<fence>sql", "\n", "<fence>">>)}

\* generate_sql_with_gpt: the SQL of the answer, None when the call raised
generate_sql_with_gpt(user_question, response) ==
  IF response.error THEN Null ELSE Text(extract_sql_from_response(response.text))

\* what the user may type into the review text area
Edits == {<<"SELECT 3">>, <<>>}

\* a DataFrame of n rows, or None
NoDataFrame == [none |-> TRUE, rows |-> 0]
DataFrame(n) == [none |-> FALSE, rows |-> n]

\* the server behind get_db_connection: unreachable, failing the query, or
\* answering it
Databases ==
  {[conn |-> FALSE, raises |-> FALSE, rows |-> 0],
   [conn |-> TRUE, raises |-> TRUE, rows |-> 0],
   [conn |-> TRUE, raises |-> FALSE, rows |-> 1]}

\* run_query: None without a connection or when the query raises (an empty
\* query always does), else the rows
run_query(sql, db) ==
  IF ~db.conn THEN NoDataFrame
  ELSE IF db.raises \/ sql = <<>> THEN NoDataFrame
  ELSE DataFrame(db.rows)

\* a call of run_query, as the script run records it
Call(sql, via) == [sql |-> sql, via |-> via]

\* fetch_metrics (cached for 60 s): the queries it sends when it is not cached
fetch_metrics(cached) ==
  IF cached THEN <<>>
  ELSE <<Call(<<"SELECT COUNT(*) AS orders FROM order_detail;">>, "metrics"),
         Call(<<"SELECT COUNT(*) AS customers FROM customer;">>, "metrics"),
         Call(<<"SELECT COUNT(*) AS products FROM product;">>, "metrics"),
         Call(<<"SELECT COALESCE(ROUND(SUM(...), 2), 0) AS revenue ...">>, "metrics")>>

\* require_login: TRUE when it shows the login screen and stops the script
require_login_open(ss) == FALSE
require_login(ss) == ss.logged_in # "True"

\* login_screen under the click login_btn. locked: Streamlit refuses the
\* assignment to the key of the text_input made above it (line 213 raises, the
\* except of line 217 catches it and line 214 is not reached).
login_screen(ss, login_btn, locked) ==
  IF login_btn /\ ss.login_password # "" /\ checkpw(ss.login_password, HASHED_PASSWORD)
  THEN IF locked
       THEN [ss |-> [ss EXCEPT !.logged_in = "True"], rerun |-> FALSE]
       ELSE [ss |-> [ss EXCEPT !.logged_in = "True", !.login_password = ""], rerun |-> TRUE]
  ELSE [ss |-> ss, rerun |-> FALSE]

\* lines 379-381, 400-402, 442-444: forget the history and the generated SQL
Cleared(ss) ==
  [ss EXCEPT !.query_history = <<>>, !.generated_sql = Null, !.current_question = Null]

\* Streamlit drops the value of a keyed widget at the end of a script run
\* that did not draw it: question_text and selected_prompt on the login screen,
\* login_password on the main page
WithoutMainWidgets(ss) ==
  [ss EXCEPT !.question_text = FreshSession.question_text,
             !.selected_prompt = FreshSession.selected_prompt]
WithoutLoginWidgets(ss) == [ss EXCEPT !.login_password = FreshSession.login_password]

\* what a script run leaves: session state, the review text area, the page, a
\* rerun it asked for, the SQL it generated and the run_query calls it made
Outcome(ss, review, page, rerun, generated, executed) ==
  [ss |-> ss, edited_sql |-> review, screen |-> page, rerun |-> rerun,
   generated |-> generated, executed |-> executed]

\* lines 373-381: Apply and Clear of the sidebar form
Sidebar(ss, ev) ==
  IF ev.kind = "apply"
  THEN [ss EXCEPT !.question_text = prompt_map[ss.selected_prompt],
                  !.generated_sql = Null, !.current_question = Null]
  ELSE IF ev.kind = "clear" THEN Cleared(ss)
  ELSE ss

\* lines 398-403: Logout, then st.rerun()
Logout(ss) == [Cleared(ss) EXCEPT !.logged_in = "False"]

\* lines 441-444: Clear History
ClearHistory(ss, ev) == IF ev.kind = "clear_history" THEN Cleared(ss) ELSE ss

\* line 446: the Generate SQL click with a question in the box
Generating(ss, ev) == ev.kind = "generate" /\ ss.question_text # <<>>

\* line 453: sql_query
SqlQuery(ss, ev, response) ==
  IF Generating(ss, ev) THEN generate_sql_with_gpt(strip(ss.question_text), response)
  ELSE Null

\* lines 446-456: generate SQL for the question and keep it when there is any
Generate(ss, ev, response) ==
  IF ~Generating(ss, ev) THEN ss
  ELSE IF Truthy(SqlQuery(ss, ev, response))
       THEN [ss EXCEPT !.generated_sql = SqlQuery(ss, ev, response),
                       !.current_question = Text(strip(ss.question_text))]
  ELSE IF ss.current_question # Text(strip(ss.question_text))
       THEN [ss EXCEPT !.generated_sql = Null, !.current_question = Null]
  ELSE ss

\* lines 463-467: the review text area, drawn when there is generated SQL. It
\* has no key: it keeps the user's text (review) while its value argument is
\* the one of the run before (before), and shows the argument otherwise.
TextArea(ss, before, review) ==
  IF ~Truthy(ss.generated_sql) THEN Null
  ELSE IF ~review.null /\ ss.generated_sql = before THEN review
  ELSE ss.generated_sql

\* st.button("Run Query") of line 471: drawn below the review text area, TRUE in
\* the script run its click starts
RunButton_auto(ev, shown) == shown /\ ev.kind \in {"run", "generate"}
RunButton(ev, shown) == shown /\ ev.kind = "run"

\* lines 473-479: run the reviewed SQL and record it when it gave a result
RunQuery(ss, edited, ev, db) ==
  IF RunButton(ev, ~edited.null) /\ ~run_query(edited.text, db).none
  THEN [ss EXCEPT !.query_history =
          Append(@, [question |-> ss.question_text, sql |-> edited.text,
                     rows |-> run_query(edited.text, db).rows])]
  ELSE ss

\* reversed(query_history[-8:])
Reversed(s) == [i \in 1..Len(s) |-> s[Len(s) + 1 - i]]
LastShown(history) ==
  Reversed(SubSeq(history, Len(history) - Min(Len(history), HistoryShown) + 1, Len(history)))

\* the run_query calls of lines 416, 475 and 497, in this order
Calls(ss, edited, ev, cached) ==
  fetch_metrics(cached)
  \o (IF RunButton(ev, ~edited.null) THEN <<Call(edited.text, "run")>> ELSE <<>>)
  \o (IF ev.kind = "rerun_item" /\ ev.idx < Len(LastShown(ss.query_history))
      THEN <<Call(LastShown(ss.query_history)[ev.idx + 1].sql, "rerun")>> ELSE <<>>)

\* lines 458-499 once the buttons above are handled: ss is the session state
\* then, edited the text area
QueryFlow(ss, edited, generated, ev, input) ==
  Outcome(WithoutLoginWidgets(RunQuery(ss, edited, ev, input.db)), edited,
          "main", FALSE, generated,
          Calls(RunQuery(ss, edited, ev, input.db), edited, ev, input.cached))

\* lines 341-456: the page down to the Generate SQL button
Upper(ss, ev, input) == Generate(ClearHistory(Sidebar(ss, ev), ev), ev, input.response)

\* main() in the script run started by event ev, from session state ss with
\* the review text area holding review; input is what the run gets from
\* outside (Streamlit's version, the metrics cache, the model, the server)
main(ss, review, ev, input) ==
  IF require_login(ss)
  THEN Outcome(WithoutMainWidgets(login_screen(ss, ev.kind = "login", input.locked).ss),
               Null,
               IF login_screen(ss, ev.kind = "login", input.locked).rerun
               THEN "none" ELSE "login",
               login_screen(ss, ev.kind = "login", input.locked).rerun, Null, <<>>)
  ELSE IF ev.kind = "logout"
  THEN Outcome(Logout(Sidebar(ss, ev)), Null, "none", TRUE, Null, <<>>)
  ELSE QueryFlow(Upper(ss, ev, input),
                 TextArea(Upper(ss, ev, input), ss.generated_sql, review),
                 IF Truthy(SqlQuery(ClearHistory(Sidebar(ss, ev), ev), ev, input.response))
                 THEN SqlQuery(ClearHistory(Sidebar(ss, ev), ev), ev, input.response)
                 ELSE Null,
                 ev, input)

\* an event and the inputs of a script run
Event(kind, idx) == [kind |-> kind, idx |-> idx]
Input(locked, cached, response, db) ==
  [locked |-> locked, cached |-> cached, response |-> response, db |-> db]
NoDb == [conn |-> FALSE, raises |-> FALSE, rows |-> 0]

\* one script run: the widget values the event changed are in ss and review
ScriptRun(ss, review, ev, input) ==
  \E r \in {main(ss, review, ev, input)} :
      /\ session_state' = r.ss
      /\ edited_sql' = r.edited_sql
      /\ screen' = r.screen
      /\ rerun_pending' = r.rerun
      /\ last_run' = [generated |-> r.generated, executed |-> r.executed]
      /\ UNCHANGED <<config, pg, pg_at_start, run, dates>>

\* the page is opened, or st.rerun() asked for another run
Rerun ==
  /\ rerun_pending
  /\ \E cached \in BOOLEAN :
       ScriptRun(session_state, edited_sql, Event("rerun", 0),
                 Input(FALSE, cached, ApiError, NoDb))

\* ---- the login screen
TypePassword ==
  /\ ~rerun_pending /\ screen = "login"
  /\ \E p \in Passwords :
       ScriptRun([session_state EXCEPT !.login_password = p], edited_sql,
                 Event("password", 0), Input(FALSE, FALSE, ApiError, NoDb))

ClickLogin ==
  /\ ~rerun_pending /\ screen = "login"
  /\ \E locked \in BOOLEAN :
       ScriptRun(session_state, edited_sql, Event("login", 0),
                 Input(locked, FALSE, ApiError, NoDb))

\* the Clear button's on_click empties the password box before the run
ClickClearPassword ==
  /\ ~rerun_pending /\ screen = "login"
  /\ ScriptRun([session_state EXCEPT !.login_password = ""], edited_sql,
               Event("clear_password", 0), Input(FALSE, FALSE, ApiError, NoDb))

\* ---- the main page
OnMain == ~rerun_pending /\ screen = "main"

\* the two buttons of prompt_form submit the selectbox with them
ClickApply ==
  /\ OnMain
  /\ \E p \in DOMAIN prompt_map, cached \in BOOLEAN :
       ScriptRun([session_state EXCEPT !.selected_prompt = p], edited_sql,
                 Event("apply", 0), Input(FALSE, cached, ApiError, NoDb))

ClickClear ==
  /\ OnMain
  /\ \E p \in DOMAIN prompt_map, cached \in BOOLEAN :
       ScriptRun([session_state EXCEPT !.selected_prompt = p], edited_sql,
                 Event("clear", 0), Input(FALSE, cached, ApiError, NoDb))

ClickLogout ==
  /\ OnMain
  /\ ScriptRun(session_state, edited_sql, Event("logout", 0),
               Input(FALSE, FALSE, ApiError, NoDb))

TypeQuestion ==
  /\ OnMain
  /\ \E q \in Questions, cached \in BOOLEAN :
       ScriptRun([session_state EXCEPT !.question_text = q], edited_sql,
                 Event("question", 0), Input(FALSE, cached, ApiError, NoDb))

ClickGenerate ==
  /\ OnMain
  /\ \E response \in Responses, cached \in BOOLEAN :
       ScriptRun(session_state, edited_sql, Event("generate", 0),
                 Input(FALSE, cached, response, NoDb))

ClickClearHistory ==
  /\ OnMain
  /\ \E cached \in BOOLEAN :
       ScriptRun(session_state, edited_sql, Event("clear_history", 0),
                 Input(FALSE, cached, ApiError, NoDb))

\* the user changes the text of the review text area
EditSql ==
  /\ OnMain /\ ~edited_sql.null
  /\ \E t \in Edits, cached \in BOOLEAN :
       ScriptRun(session_state, Text(t), Event("edit", 0),
                 Input(FALSE, cached, ApiError, NoDb))

ClickRunQuery ==
  /\ OnMain /\ ~edited_sql.null
  /\ Len(session_state.query_history) < MaxHistory
  /\ \E db \in Databases, cached \in BOOLEAN :
       ScriptRun(session_state, edited_sql, Event("run", 0),
                 Input(FALSE, cached, ApiError, db))

\* the Re-run button with key rerun_idx of the history list
ClickRerun ==
  /\ OnMain
  /\ \E idx \in 0..(Len(LastShown(session_state.query_history)) - 1),
        db \in Databases, cached \in BOOLEAN :
       ScriptRun(session_state, edited_sql, Event("rerun_item", idx),
                 Input(FALSE, cached, ApiError, db))

\* a browser session that opens the dashboard
InitApp ==
  /\ sqlite_db = NoTables
  /\ batch_size = 1 /\ page_size = 1
  /\ pg = NoTables /\ pg_at_start = NoTables
  /\ pc = "dashboard" /\ err = "" /\ missing = <<>> /\ created = 0
  /\ copy_call = 0 /\ fetched = 0 /\ total = 0 /\ chunks = <<>> /\ ret = <<>>
  /\ out = <<>> /\ sqlite_conn = "none" /\ pg_conn = "none"
  /\ date_in = Null /\ date_py311 = FALSE /\ date_out = NoneDate
  /\ session_state = FreshSession /\ edited_sql = Null /\ screen = "none"
  /\ rerun_pending = TRUE /\ last_run = NoRun

NextApp ==
  \/ Rerun
  \/ TypePassword
  \/ ClickLogin
  \/ ClickClearPassword
  \/ ClickApply
  \/ ClickClear
  \/ ClickLogout
  \/ TypeQuestion
  \/ ClickGenerate
  \/ ClickClearHistory
  \/ EditSql
  \/ ClickRunQuery
  \/ ClickRerun

SpecApp == InitApp /\ [][NextApp]_vars

(* ======================= properties =================================== *)
\* the six tables, all empty: what a successful reset leaves
FreshSchema == [t \in Range(PgTables) |-> <<>>]

\* the values of column c of a table's rows, in row order
Column(rows, c) == [i \in 1..Len(rows) |-> rows[i][c]]

\* position of a target table among the copy_table calls
CallIndex(t) == CHOOSE k \in 1..Len(CopyCalls) : CopyCalls[k].pg_table = t

Printed(line) == \E i \in 1..Len(out) : out[i] = line

SourceComplete == expected \subseteq DOMAIN sqlite_db

\* C1: a run on a source that lacks an expected table ends in verification,
\* before anything is done to the target: no connection to the target is
\* opened (so no DROP, CREATE or INSERT is sent), the schema reset is never
\* started, and the target's tables and rows are those the run found.
C1_BadSourceNoSideEffects ==
  ~SourceComplete =>
    /\ pc \in {"start", "ready", "failed"}
    /\ pg_conn = "none"
    /\ ~Printed(<<"Creating tables...">>)
    /\ pg = pg_at_start
    /\ (pc = "failed" /\ sqlite_conn # "none" => err = "ValueError" /\ missing # <<>>)

C1_Witness ==
  /\ ~SourceComplete /\ pc = "failed" /\ err = "ValueError" /\ missing # <<>>
  /\ pg = pg_at_start /\ pg = MixedDb

\* C2: verification succeeds exactly when every expected name is among the
\* source's tables (names compared case-sensitively); when it fails, the
\* names it reports are exactly the expected names that are absent, each once.
C2_VerifyExact ==
  sqlite_conn # "none" =>
    /\ (pc = "failed" /\ pg_conn = "none" /\ err = "ValueError") <=> ~SourceComplete
    /\ Range(missing) = expected \ DOMAIN sqlite_db
    /\ Len(missing) = Cardinality(expected \ DOMAIN sqlite_db)

C2_Witness ==
  /\ pc = "failed" /\ err = "ValueError" /\ sqlite_conn = "open"
  /\ {"region", "sqlite_sequence"} \subseteq DOMAIN sqlite_db
  /\ missing = <<"Product", "Region">>

\* C3: a table is copied only after every table it references has been copied
\* completely; with a source whose references all resolve, no insert is
\* rejected for a missing referenced row, and in every committed state from the
\* reset on each foreign-key value of a target table is a key of the referenced
\* target table.
NoDangling(db) ==
  \A t \in DOMAIN db :
    \A fk \in ForeignKeys(t) :
      \A i \in 1..Len(db[t]) : db[t][i][fk[1]] \in Ids(db, fk[2])

C3_DependencyOrder ==
  /\ (pc = "loop" \/ (pc = "failed" /\ copy_call >= 1)) =>
       \A u \in References(CopyCalls[copy_call].pg_table) :
         /\ CallIndex(u) < copy_call
         /\ Len(pg[u]) = Len(sqlite_db[CopyCalls[CallIndex(u)].sqlite_table])
  /\ (SourceComplete /\ Consistent(sqlite_db)) =>
       /\ err # "ForeignKeyViolation"
       /\ (DOMAIN pg = Range(PgTables) => NoDangling(pg))

C3_Witness ==
  /\ pc = "done" /\ Consistent(sqlite_db)
  /\ Len(pg["order_detail"]) >= 3
  /\ Column(pg["order_detail"], 2) # Column(pg["order_detail"], 3)

\* the call of copy_table that has just returned (0: none has)
Returned == IF pc \in {"call", "copied"} /\ copy_call >= 2 THEN copy_call - 1 ELSE 0

\* C4: when a copy_table call has returned, the target table holds the source
\* table's rows, each once and in source order, and they were inserted in
\* ceil(N / batch_size) chunks (none when N = 0), every chunk of batch_size rows
\* except the last, which has between 1 and batch_size rows.
C4_BatchesCoverSource ==
  Returned # 0 =>
    LET src == sqlite_db[CopyCalls[Returned].sqlite_table]
        dst == pg[CopyCalls[Returned].pg_table]
        N == Len(src)
    IN  /\ Column(dst, 1) = Column(src, 1)
        /\ Len(chunks) = CeilDiv(N, batch_size)
        /\ \A k \in 1..Len(chunks) :
             /\ chunks[k].rows >= 1 /\ chunks[k].rows <= batch_size
             /\ k < Len(chunks) => chunks[k].rows = batch_size
        /\ (N > 0 => chunks[Len(chunks)].rows = N - batch_size * (Len(chunks) - 1))

C4_Witness ==
  /\ Returned = Len(CopyCalls) /\ batch_size = 2
  /\ Len(sqlite_db["OrderDetail"]) = 3
  /\ Len(chunks) = 2 /\ chunks[1].rows = 2 /\ chunks[2].rows = 1

\* sum of the sizes of the chunks inserted
RECURSIVE SumRows(_)
SumRows(cs) == IF cs = <<>> THEN 0 ELSE cs[1].rows + SumRows(Tail(cs))

\* C5: while a copy_table call runs, every row fetched so far is committed
\* before the next fetch; when the transform or the insert of a chunk fails, the
\* target table holds exactly the rows of the chunks before it, in order, and
\* no row of the failing chunk or of a later one.
C5_ChunkCommit ==
  (copy_call \in 1..Len(CopyCalls) /\ pc \in {"loop", "failed"}) =>
    LET src == sqlite_db[CopyCalls[copy_call].sqlite_table]
        dst == pg[CopyCalls[copy_call].pg_table]
        done == SumRows(chunks)
    IN  /\ Column(dst, 1) = Column(SubSeq(src, 1, done), 1)
        /\ total = done
        /\ \A k \in 1..Len(chunks) : chunks[k].rows = batch_size \/ k = Len(chunks)
        /\ (pc = "loop" => fetched = done)
        /\ (pc = "failed" => /\ fetched > done /\ fetched <= done + batch_size
                             /\ done = batch_size * Len(chunks))

C5_Witness ==
  /\ pc = "failed" /\ copy_call = Len(CopyCalls) /\ err = "ForeignKeyViolation"
  /\ batch_size = 1 /\ Len(chunks) = 2 /\ Len(pg["order_detail"]) = 2
  /\ Len(sqlite_db["OrderDetail"]) = 3

\* C6: an error ends the run at once: after a failure in verification or reset
\* no copy is attempted; after a failure in a copy_table call no later table is
\* attempted and the later target tables are empty; the success line is
\* printed only by a run that raised nothing and copied all six tables.
C6_AbortOnError ==
  /\ err # "" => pc = "failed"
  /\ pc = "failed" =>
       /\ err # ""
       /\ ~Printed(<<"migration complete">>)
       /\ \A k \in 1..Len(CopyCalls) :
            k > copy_call =>
              /\ ~Printed(<<"Migrating", CopyCalls[k].sqlite_table>>)
              /\ (copy_call >= 1 => pg[CopyCalls[k].pg_table] = <<>>)
  /\ Printed(<<"migration complete">>) =>
       /\ pc = "done" /\ err = ""
       /\ \A k \in 1..Len(CopyCalls) :
            /\ Printed(<<"Migrating", CopyCalls[k].sqlite_table>>)
            /\ Len(pg[CopyCalls[k].pg_table]) = Len(sqlite_db[CopyCalls[k].sqlite_table])

C6_Witness ==
  /\ pc = "failed" /\ copy_call = 2 /\ err = "ForeignKeyViolation"
  /\ Len(pg["region"]) = 2 /\ Len(pg["country"]) = 1 /\ pg["customer"] = <<>>
  /\ Len(sqlite_db["Customer"]) = 2

\* the DDL block raised (the connection it ran on is left open)
ResetFailed == pc = "failed" /\ copy_call = 0 /\ pg_conn = "open"
\* the DDL block was committed and nothing has been copied yet
ResetJustDone ==
  \/ pc = "call" /\ copy_call = 1
  \/ pc = "failed" /\ copy_call = 0 /\ pg_conn = "closed"

\* C7: when a statement of the DDL block fails, the run ends with an error and
\* the target is as the run found it: no table the block created (and no drop
\* it made) remains, however many CREATE TABLE statements had run.
C7_ResetAllOrNothing ==
  ResetFailed =>
    /\ err # "" /\ ~Printed(<<"Tables created successfully">>)
    /\ pg = pg_at_start
    /\ created < Len(PgTables)

C7_Witness ==
  /\ ResetFailed /\ err = "OperationalError"
  /\ created = 3 /\ pg = pg_at_start /\ pg = LegacyDb /\ "customer" \notin DOMAIN pg

\* C8: whatever the target held (nothing, the other schema's tables, some or
\* all of the six tables with or without rows, or the six empty tables a reset
\* has just left), the DDL block never fails on what it finds, and once
\* committed it leaves exactly the six tables, all empty.
C8_ResetIdempotent ==
  /\ ResetFailed => err = "OperationalError"
  /\ ResetJustDone => pg = FreshSchema /\ created = Len(PgTables)
  /\ Printed(<<"Tables created successfully">>) => DOMAIN pg = Range(PgTables)

C8_Witness ==
  /\ pc = "call" /\ copy_call = 1
  /\ pg_at_start = FreshSchema /\ pg = FreshSchema

\* C9 as claimed: copy_table returns the number of rows it inserted.
C9_Original ==
  Returned # 0 => ret = <<Len(pg[CopyCalls[Returned].pg_table])>>

\* C9: copy_table returns None; the number of rows it inserted is its local
\* total, which equals the number of source rows and is the count in the last
\* line it printed (it prints none when the table is empty).
C9_TotalPrintedNotReturned ==
  Returned # 0 =>
    LET t == CopyCalls[Returned].pg_table
    IN  /\ ret = <<>>
        /\ total = Len(pg[t])
        /\ total = Len(sqlite_db[CopyCalls[Returned].sqlite_table])
        /\ out[Len(out)] = IF total > 0 THEN <<"Inserted", total, t>>
                           ELSE <<"Migrating", CopyCalls[Returned].sqlite_table>>

C9_Witness ==
  /\ Returned = Len(CopyCalls) /\ ret = <<>> /\ total = 3
  /\ out[Len(out)] = <<"Inserted", 3, "order_detail">>

\* the text between its first and last non-whitespace characters
Trimmed(t) ==
  LET ink == {i \in 1..Len(t) : t[i] \notin Whitespace}
  IN  IF ink = {} THEN <<>>
      ELSE SubSeq(t, CHOOSE i \in ink : \A j \in ink : i <= j,
                     CHOOSE i \in ink : \A j \in ink : i >= j)

\* t begins with the pattern: "d" a digit, "*" any character, else that character
Matches(t, pattern) ==
  /\ Len(t) >= Len(pattern)
  /\ \A i \in 1..Len(pattern) :
       CASE pattern[i] = "d" -> t[i] \in Digits
         [] pattern[i] = "*" -> TRUE
         [] OTHER -> t[i] = pattern[i]

PatCompact == <<"d", "d", "d", "d", "d", "d", "d", "d">>
PatIso == <<"d", "d", "d", "d", "-", "d", "d", "-", "d", "d">>
PatWeek == <<"d", "d", "d", "d", "W", "d", "d">>
PatWeekDay == <<"d", "d", "d", "d", "W", "d", "d", "d">>
PatIsoWeek == <<"d", "d", "d", "d", "-", "W", "d", "d">>
PatIsoWeekDay == <<"d", "d", "d", "d", "-", "W", "d", "d", "-", "d">>

Num(t, from, to) == ToInt(SubSeq(t, from, to))

\* ISO year, week and weekday (1 = Monday) of a date: the week belongs to the
\* year its Thursday lies in
IsoCalendar(date) ==
  LET ord == YmdToOrd(date.y, date.m, date.d)
      wd == (ord + 6) % 7
      thursday == ord - wd + 3
      iy == IF thursday <= DaysBeforeYear(date.y) THEN date.y - 1
            ELSE IF thursday > DaysBeforeYear(date.y + 1) THEN date.y + 1 ELSE date.y
  IN  <<iy, (thursday - DaysBeforeYear(iy) - 1) \div 7 + 1, wd + 1>>

\* 28 December always lies in the last ISO week of its year
WeeksInYear(y) == IsoCalendar(Date(y, 12, 28))[2]

\* the result is what the ISO week date y-Ww-d denotes: that date, or an error
\* when there is no such week day
IsWeekDate(result, y, w, d) ==
  IF y \in 1..9999 /\ w >= 1 /\ w <= WeeksInYear(y) /\ d \in 1..7
  THEN result.tag = "date" /\ IsoCalendar(result) = <<y, w, d>>
  ELSE result = ValueError

Ended == pc \in {"done", "failed"}

\* C11 as stated: whichever way the script ends, successfully or by an error
\* raised in verification, in the schema reset or in a copy_table call, the
\* SQLite connection and the Postgres connection it opened have been closed.
C11_Original ==
  Ended => sqlite_conn # "open" /\ pg_conn # "open"

IsFlowCall(c) == c.via # "metrics"
QueryFlowCalls(r) == SelectSeq(r.executed, IsFlowCall)

\* the SQL texts of a history
HistorySql(history) == {history[k].sql : k \in 1..Len(history)}

\* C13: no script run of the dashboard both generates SQL and passes SQL of
\* the query flow to run_query. Every SQL text the query flow passes to
\* run_query is, in a run started by a Run Query click, the content the review
\* text area had when the click was made, or, in a run started by a Re-run
\* click, the SQL of an entry the history had at the click; and an entry enters
\* the history only in a run started by a Run Query click, with the content of
\* the review text area as its SQL.
C13_ReviewedBeforeRun ==
  [][/\ ~last_run'.generated.null => QueryFlowCalls(last_run') = <<>>
     /\ \A i \in 1..Len(QueryFlowCalls(last_run')) :
          LET c == QueryFlowCalls(last_run')[i]
          IN  \/ /\ c.via = "run" /\ ClickRunQuery
                 /\ ~edited_sql.null /\ c.sql = edited_sql.text
              \/ /\ c.via = "rerun" /\ ClickRerun
                 /\ c.sql \in HistorySql(session_state.query_history)
     /\ \/ session_state'.query_history = session_state.query_history
        \/ session_state'.query_history = <<>>
        \/ /\ ClickRunQuery /\ ~edited_sql.null
           /\ Len(session_state'.query_history) = Len(session_state.query_history) + 1
           /\ SubSeq(session_state'.query_history, 1, Len(session_state.query_history))
                = session_state.query_history
           /\ session_state'.query_history[Len(session_state'.query_history)].sql
                = edited_sql.text
    ]_vars

\* the last script run re-ran a history entry whose SQL the user had typed over
\* the generated SQL before running it
C13_Witness ==
  /\ QueryFlowCalls(last_run) = <<Call(<<"SELECT 3">>, "rerun")>>
  /\ session_state.generated_sql = Text(<<"SELECT 1">>)
  /\ <<"SELECT 3">> \in HistorySql(session_state.query_history)
  /\ <<"SELECT 1">> \in HistorySql(session_state.query_history)

(* ----------------------- C14 ------------------------------------------ *)
\* nothing of the query flow is in the session
NoQueryState(ss) ==
  ss.generated_sql = Null /\ ss.current_question = Null /\ ss.query_history = <<>>

\* C14: a script run that starts with logged_in absent or False generates
\* no SQL and makes no run_query call, and draws the login screen or asks for
\* a rerun; logged_in becomes True only in a run started by a Login click with
\* the password whose hash is HASHED_PASSWORD in the box; a run started by a
\* Logout click leaves logged_in False; and whenever logged_in is not True
\* after a run, generated_sql and current_question are None, query_history is
\* empty and the review text area is gone, so the next login starts from none.
C14_LoginGate ==
  [][/\ session_state.logged_in # "True" =>
          /\ last_run'.generated = Null /\ last_run'.executed = <<>>
          /\ screen' \in {"login", "none"}
     /\ session_state.logged_in # "True" /\ session_state'.logged_in = "True" =>
          ClickLogin /\ checkpw(session_state.login_password, HASHED_PASSWORD)
     /\ ClickLogout => session_state'.logged_in = "False"
     /\ session_state'.logged_in # "True" =>
          NoQueryState(session_state') /\ edited_sql' = Null
    ]_vars

\* after a logout, a wrong password on the login screen
C14_Witness ==
  /\ session_state.logged_in = "False"
  /\ screen = "login"
  /\ session_state.login_password = "guess"
  /\ last_run.executed = <<>>
  /\ NoQueryState(session_state)

====
